---- MODULE Spec2Model ----
(***************************************************************************)
(* Model of the FastAPI user/auth backend: the users table, the login and  *)
(* refresh flow (AuthService), the authorization guard (dependencies.py)   *)
(* and the user routes.  One action is one HTTP request, run inside the    *)
(* request-scoped session of get_db (commit on success, rollback on any    *)
(* exception).  Optional values are sets with at most one element.         *)
(* Spec runs the requests one at a time, SpecClock adds the passing of     *)
(* time, SpecRace runs the write requests of two sessions interleaved,     *)
(* SpecTracked records the tokens a revoking server would have withdrawn.  *)
(***************************************************************************)
EXTENDS Integers, FiniteSets, Sequences, TLC

VARIABLES users, nextId, now, ticks, held, last, sess, stale

vars == <<users, nextId, now, ticks, held, last, sess, stale>>

(***************************************************************************)
(* Bounds of the model.                                                    *)
(***************************************************************************)
MaxUsers == 2
MaxTicks == 2

Emails == {"a@x.com", "b@x.com"}
Usernames == {"alice", "bob"}
Passwords == {"pw1", "pw2"}

(***************************************************************************)
(* Settings (minutes are the unit of time).                                *)
(***************************************************************************)
ACCESS_TOKEN_EXPIRE_MINUTES == 30
REFRESH_TOKEN_EXPIRE_DAYS == 7
MinutesPerDay == 24 * 60

AccessTTL == ACCESS_TOKEN_EXPIRE_MINUTES
RefreshTTL == REFRESH_TOKEN_EXPIRE_DAYS * MinutesPerDay

(***************************************************************************)
(* Roles: the roles table is seeded outside the application; the guard     *)
(* compares role.role_name with "admin" (role id 1).                       *)
(***************************************************************************)
RoleIds == {1, 2}
RoleName(rid) == IF rid = 1 THEN "admin" ELSE "user"
Role(rid) == [id |-> rid, role_name |-> RoleName(rid)]

(***************************************************************************)
(* Credential hasher (app.utils.security).  The digest of a password is an *)
(* opaque string different from every plaintext.                           *)
(***************************************************************************)
get_password_hash(p) == IF p = "pw1" THEN "$2b$pw1" ELSE "$2b$pw2"
verify_password(p, h) == h = get_password_hash(p)

(***************************************************************************)
(* Token codec (app.utils.security).  A token is its signed claims; sig is *)
(* whether the signature verifies under the server's secret.  A claim that *)
(* is absent is 0 (user_id) or "" (username).                              *)
(***************************************************************************)
create_token(data, type, ttl, time) ==
    [sig |-> TRUE, type |-> type, user_id |-> data.user_id,
     username |-> data.username, exp |-> time + ttl]

create_access_token(data, time) == create_token(data, "access", AccessTTL, time)

create_refresh_token(data, time) ==
    create_token([user_id |-> data.user_id, username |-> ""], "refresh", RefreshTTL, time)

decode_token(t, time) == IF t.sig /\ time < t.exp THEN {t} ELSE {}

(***************************************************************************)
(* User repository over the committed table db (a set of rows).            *)
(***************************************************************************)
get_by_id(db, id) == {u \in db : u.id = id}
get_by_email(db, email) == {u \in db : u.email = email}
email_exists(db, email) == \E u \in db : u.email = email
username_exists(db, username) == \E u \in db : u.username = username

\* UserInDB, the schema that carries the digest, in place of UserResponse.
UserInDB(u) ==
    [id |-> u.id, email |-> u.email, username |-> u.username,
     role_id |-> u.role_id, is_active |-> u.is_active, role |-> Role(u.role_id),
     hashed_password |-> u.hashed_password]

UserResponse(u) ==
    [id |-> u.id, email |-> u.email, username |-> u.username,
     role_id |-> u.role_id, is_active |-> u.is_active, role |-> Role(u.role_id)]

(***************************************************************************)
(* Responses.  raised marks an exception leaving the handler.  detail and  *)
(* error are the two keys of the JSON body of an error response; logged is *)
(* the text the exception handler writes to the server's log.              *)
(***************************************************************************)
JSONResponse(code, msg, err, log) ==
    [raised |-> TRUE, status |-> code, detail |-> msg, error |-> err, logged |-> log,
     access |-> {}, refresh |-> {}, token_type |-> "", body |-> {}]

HTTPException(code, msg) == JSONResponse(code, msg, "", "")

Token(a, r) ==
    [raised |-> FALSE, status |-> 200, detail |-> "", error |-> "", logged |-> "",
     access |-> {a}, refresh |-> {r}, token_type |-> "bearer", body |-> {}]

Ok(code, rows) ==
    [raised |-> FALSE, status |-> code, detail |-> "", error |-> "", logged |-> "",
     access |-> {}, refresh |-> {}, token_type |-> "", body |-> rows]

(***************************************************************************)
(* Faulty variants of login, used to show that the login properties        *)
(* depend on it: the refresh token created by create_access_token; an      *)
(* unknown email told apart from a wrong password; no is_active test; an   *)
(* inactive user answered 401.                                             *)
(***************************************************************************)
login_two_access_tokens(db, time, email, password) ==
    LET found == get_by_email(db, email) IN
    IF found = {} \/ \A u \in found : ~verify_password(password, u.hashed_password)
    THEN HTTPException(401, "Incorrect email or password")
    ELSE LET user == CHOOSE u \in found : TRUE IN
         IF ~user.is_active
         THEN HTTPException(400, "Inactive user")
         ELSE Token(create_access_token([user_id |-> user.id, username |-> user.username], time),
                    create_access_token([user_id |-> user.id, username |-> ""], time))

login_reveals_unknown_email(db, time, email, password) ==
    LET found == get_by_email(db, email) IN
    IF found = {}
    THEN HTTPException(404, "User not found")
    ELSE IF \A u \in found : ~verify_password(password, u.hashed_password)
    THEN HTTPException(401, "Incorrect email or password")
    ELSE LET user == CHOOSE u \in found : TRUE IN
         IF ~user.is_active
         THEN HTTPException(400, "Inactive user")
         ELSE Token(create_access_token([user_id |-> user.id, username |-> user.username], time),
                    create_refresh_token([user_id |-> user.id], time))

login_skips_is_active(db, time, email, password) ==
    LET found == get_by_email(db, email) IN
    IF found = {} \/ \A u \in found : ~verify_password(password, u.hashed_password)
    THEN HTTPException(401, "Incorrect email or password")
    ELSE LET user == CHOOSE u \in found : TRUE IN
         Token(create_access_token([user_id |-> user.id, username |-> user.username], time),
               create_refresh_token([user_id |-> user.id], time))

login_inactive_401(db, time, email, password) ==
    LET found == get_by_email(db, email) IN
    IF found = {} \/ \A u \in found : ~verify_password(password, u.hashed_password)
    THEN HTTPException(401, "Incorrect email or password")
    ELSE LET user == CHOOSE u \in found : TRUE IN
         IF ~user.is_active
         THEN HTTPException(401, "Inactive user")
         ELSE Token(create_access_token([user_id |-> user.id, username |-> user.username], time),
                    create_refresh_token([user_id |-> user.id], time))

\* A login that tests is_active before it verifies the password.
login_active_test_first(db, time, email, password) ==
    LET found == get_by_email(db, email) IN
    IF found = {}
    THEN HTTPException(401, "Incorrect email or password")
    ELSE LET user == CHOOSE u \in found : TRUE IN
         IF ~user.is_active
         THEN HTTPException(400, "Inactive user")
         ELSE IF ~verify_password(password, user.hashed_password)
         THEN HTTPException(401, "Incorrect email or password")
         ELSE Token(create_access_token([user_id |-> user.id, username |-> user.username], time),
                    create_refresh_token([user_id |-> user.id], time))

(***************************************************************************)
(* Faulty variants of refresh_token: no test of the token type; no test of *)
(* is_active; the presented token handed back as the new refresh token;    *)
(* no test for a payload of None (payload.get then raises).                *)
(***************************************************************************)
refresh_token_any_type(db, time, t) ==
    LET payload == decode_token(t, time) IN
    IF payload = {}
    THEN HTTPException(401, "Invalid refresh token")
    ELSE LET user_id == (CHOOSE p \in payload : TRUE).user_id IN
         IF user_id = 0
         THEN HTTPException(401, "Invalid refresh token")
         ELSE LET found == get_by_id(db, user_id) IN
              IF found = {} \/ \A u \in found : ~u.is_active
              THEN HTTPException(401, "User not found or inactive")
              ELSE LET user == CHOOSE u \in found : TRUE IN
                   Token(create_access_token([user_id |-> user.id, username |-> user.username], time),
                         create_refresh_token([user_id |-> user.id], time))

refresh_token_skips_is_active(db, time, t) ==
    LET payload == decode_token(t, time) IN
    IF payload = {} \/ \A p \in payload : p.type # "refresh"
    THEN HTTPException(401, "Invalid refresh token")
    ELSE LET user_id == (CHOOSE p \in payload : TRUE).user_id IN
         IF user_id = 0
         THEN HTTPException(401, "Invalid refresh token")
         ELSE LET found == get_by_id(db, user_id) IN
              IF found = {}
              THEN HTTPException(401, "User not found or inactive")
              ELSE LET user == CHOOSE u \in found : TRUE IN
                   Token(create_access_token([user_id |-> user.id, username |-> user.username], time),
                         create_refresh_token([user_id |-> user.id], time))

refresh_token_reuses_presented(db, time, t) ==
    LET payload == decode_token(t, time) IN
    IF payload = {} \/ \A p \in payload : p.type # "refresh"
    THEN HTTPException(401, "Invalid refresh token")
    ELSE LET user_id == (CHOOSE p \in payload : TRUE).user_id IN
         IF user_id = 0
         THEN HTTPException(401, "Invalid refresh token")
         ELSE LET found == get_by_id(db, user_id) IN
              IF found = {} \/ \A u \in found : ~u.is_active
              THEN HTTPException(401, "User not found or inactive")
              ELSE LET user == CHOOSE u \in found : TRUE IN
                   Token(create_access_token([user_id |-> user.id, username |-> user.username], time),
                         t)

refresh_token_no_none_test(db, time, t) ==
    LET payload == decode_token(t, time) IN
    IF payload = {}
    THEN HTTPException(500, "An unexpected error occurred")
    ELSE IF \A p \in payload : p.type # "refresh"
    THEN HTTPException(401, "Invalid refresh token")
    ELSE LET user_id == (CHOOSE p \in payload : TRUE).user_id IN
         IF user_id = 0
         THEN HTTPException(401, "Invalid refresh token")
         ELSE LET found == get_by_id(db, user_id) IN
              IF found = {} \/ \A u \in found : ~u.is_active
              THEN HTTPException(401, "User not found or inactive")
              ELSE LET user == CHOOSE u \in found : TRUE IN
                   Token(create_access_token([user_id |-> user.id, username |-> user.username], time),
                         create_refresh_token([user_id |-> user.id], time))

(***************************************************************************)
(* AuthService                                                             *)
(***************************************************************************)
login(db, time, email, password) ==
    LET found == get_by_email(db, email) IN
    IF found = {} \/ \A u \in found : ~verify_password(password, u.hashed_password)
    THEN HTTPException(401, "Incorrect email or password")
    ELSE LET user == CHOOSE u \in found : TRUE IN
         IF ~user.is_active
         THEN HTTPException(400, "Inactive user")
         ELSE Token(create_access_token([user_id |-> user.id, username |-> user.username], time),
                    create_refresh_token([user_id |-> user.id], time))

refresh_token(db, time, t) ==
    LET payload == decode_token(t, time) IN
    IF payload = {} \/ \A p \in payload : p.type # "refresh"
    THEN HTTPException(401, "Invalid refresh token")
    ELSE LET user_id == (CHOOSE p \in payload : TRUE).user_id IN
         IF user_id = 0
         THEN HTTPException(401, "Invalid refresh token")
         ELSE LET found == get_by_id(db, user_id) IN
              IF found = {} \/ \A u \in found : ~u.is_active
              THEN HTTPException(401, "User not found or inactive")
              ELSE LET user == CHOOSE u \in found : TRUE IN
                   Token(create_access_token([user_id |-> user.id, username |-> user.username], time),
                         create_refresh_token([user_id |-> user.id], time))

(***************************************************************************)
(* Exception handlers (app/exceptions/handlers.py, registered in main.py). *)
(* exc is str(exc), the text of the exception.                             *)
(***************************************************************************)
integrity_exception_handler(exc) ==
    JSONResponse(409, "Data integrity error", "Duplicate entry or constraint violation", exc)

sqlalchemy_exception_handler(exc) ==
    JSONResponse(500, "Database error occurred", exc, exc)

general_exception_handler(exc) ==
    JSONResponse(500, "An unexpected error occurred", exc, exc)

(***************************************************************************)
(* Exceptions that are not HTTPException, as the handler registered for    *)
(* the nearest class in their MRO renders them: IntegrityError its own     *)
(* handler, DataError the handler of SQLAlchemyError, the rest the handler *)
(* of Exception.                                                           *)
(***************************************************************************)
\* IntegrityError without a handler of its own: the handler of SQLAlchemyError
\* renders it.
IntegrityError_as_SQLAlchemyError ==
    sqlalchemy_exception_handler("(IntegrityError) constraint fails [SQL: ...] [parameters: ...]")

IntegrityError ==
    integrity_exception_handler("(IntegrityError) constraint fails [SQL: ...] [parameters: ...]")

DataError ==
    sqlalchemy_exception_handler(
        "(DataError) Data too long for column 'username' [SQL: UPDATE users SET username=%s WHERE users.id = %s] [parameters: ...]")

AttributeError ==
    general_exception_handler("'User' object has no attribute 'is_superuser'")

ValidationError ==
    general_exception_handler(
        "1 validation error for UserResponse username String should have at most 50 characters [input_value=...]")

(***************************************************************************)
(* Faulty variants of the guards: get_current_user without the test of the *)
(* token type; get_current_admin without the test of the role.             *)
(***************************************************************************)
get_current_user_any_type(db, time, t) ==
    LET payload == decode_token(t, time) IN
    IF payload = {}
    THEN [error |-> {HTTPException(401, "Could not validate credentials")}, user |-> {}]
    ELSE LET user_id == (CHOOSE p \in payload : TRUE).user_id IN
         IF user_id = 0
         THEN [error |-> {HTTPException(401, "Could not validate credentials")}, user |-> {}]
         ELSE LET found == get_by_id(db, user_id) IN
              IF found = {}
              THEN [error |-> {HTTPException(401, "User not found")}, user |-> {}]
              ELSE LET user == CHOOSE u \in found : TRUE IN
                   IF ~user.is_active
                   THEN [error |-> {HTTPException(400, "Inactive user")}, user |-> {}]
                   ELSE [error |-> {}, user |-> {user}]

\* get_current_user without the test of is_active.
get_current_user_no_active_test(db, time, t) ==
    LET payload == decode_token(t, time) IN
    IF payload = {} \/ \A p \in payload : p.type # "access"
    THEN [error |-> {HTTPException(401, "Could not validate credentials")}, user |-> {}]
    ELSE LET user_id == (CHOOSE p \in payload : TRUE).user_id IN
         IF user_id = 0
         THEN [error |-> {HTTPException(401, "Could not validate credentials")}, user |-> {}]
         ELSE LET found == get_by_id(db, user_id) IN
              IF found = {}
              THEN [error |-> {HTTPException(401, "User not found")}, user |-> {}]
              ELSE [error |-> {}, user |-> found]

(***************************************************************************)
(* Authorization guard.  A guard yields the error it raises (error) or the *)
(* row of the caller (user).                                               *)
(***************************************************************************)
Reject(code, msg) == [error |-> {HTTPException(code, msg)}, user |-> {}]
Accept(u) == [error |-> {}, user |-> {u}]

get_current_user(db, time, t) ==
    LET payload == decode_token(t, time) IN
    IF payload = {} \/ \A p \in payload : p.type # "access"
    THEN Reject(401, "Could not validate credentials")
    ELSE LET user_id == (CHOOSE p \in payload : TRUE).user_id IN
         IF user_id = 0
         THEN Reject(401, "Could not validate credentials")
         ELSE LET found == get_by_id(db, user_id) IN
              IF found = {}
              THEN Reject(401, "User not found")
              ELSE LET user == CHOOSE u \in found : TRUE IN
                   IF ~user.is_active
                   THEN Reject(400, "Inactive user")
                   ELSE Accept(user)

get_current_active_user(db, time, t) ==
    LET g == get_current_user(db, time, t) IN
    IF g.error # {} THEN g
    ELSE LET current_user == CHOOSE u \in g.user : TRUE IN
         IF ~current_user.is_active THEN Reject(400, "Inactive user") ELSE g

get_current_admin_no_role_test(db, time, t) == get_current_user(db, time, t)

get_current_admin(db, time, t) ==
    LET g == get_current_user(db, time, t) IN
    IF g.error # {} THEN g
    ELSE LET current_user == CHOOSE u \in g.user : TRUE IN
         IF Role(current_user.role_id).role_name # "admin"
         THEN Reject(403, "Not enough privileges")
         ELSE g

(***************************************************************************)
(* UserService / UserRepository writes.  A write yields the response and   *)
(* the table as the session sees it after the flush.                       *)
(***************************************************************************)
Out(resp, db) == [resp |-> resp, db |-> db]

NewUser(id, email, username, password, role_id) ==
    [id |-> id, email |-> email, username |-> username,
     hashed_password |-> get_password_hash(password),
     role_id |-> role_id, is_active |-> TRUE]

\* A store without the unique indexes.
unique_violation_unconstrained(db, user) == FALSE

\* The constraints the store tests when a row is flushed: users.email and
\* users.username are unique, users.role_id references roles.id.
unique_violation(db, user) ==
    \E u \in db : u.id # user.id /\ (u.email = user.email \/ u.username = user.username)

constraint_violation(db, user) ==
    user.role_id \notin RoleIds \/ unique_violation(db, user)

\* A faulty pre-check: the username tested before the email.
create_user_refused_username_first(db, email, username) ==
    IF username_exists(db, username)
    THEN {HTTPException(400, "Username already taken")}
    ELSE IF email_exists(db, email)
    THEN {HTTPException(400, "Email already registered")}
    ELSE {}

\* UserService.create_user up to the insert: the error of the pre-check, if any.
create_user_refused(db, email, username) ==
    IF email_exists(db, email)
    THEN {HTTPException(400, "Email already registered")}
    ELSE IF username_exists(db, username)
    THEN {HTTPException(400, "Username already taken")}
    ELSE {}

\* UserRepository.create (add, flush) and the response built from the row.
create(db, user) ==
    IF constraint_violation(db, user)
    THEN Out(IntegrityError, db)
    ELSE Out(Ok(201, {UserResponse(user)}), db \cup {user})

create_user(db, id, email, username, password, role_id) ==
    LET refused == create_user_refused(db, email, username) IN
    IF refused # {}
    THEN Out(CHOOSE e \in refused : TRUE, db)
    ELSE create(db, NewUser(id, email, username, password, role_id))

get_user_by_id(db, user_id) ==
    LET found == get_by_id(db, user_id) IN
    IF found = {}
    THEN HTTPException(404, "User not found")
    ELSE Ok(200, {UserResponse(u) : u \in found})

Unset == [email |-> {}, username |-> {}, password |-> {}, role_id |-> {}, is_active |-> {}]

Pick(field, old) == IF field = {} THEN old ELSE CHOOSE v \in field : TRUE

\* A setattr that stores the new password as it came, not its digest.
setattr_stores_plaintext(user, data) ==
    [id |-> user.id,
     email |-> Pick(data.email, user.email),
     username |-> Pick(data.username, user.username),
     hashed_password |-> Pick(data.password, user.hashed_password),
     role_id |-> Pick(data.role_id, user.role_id),
     is_active |-> Pick(data.is_active, user.is_active)]

setattr(user, data) ==
    [id |-> user.id,
     email |-> Pick(data.email, user.email),
     username |-> Pick(data.username, user.username),
     hashed_password |-> IF data.password = {} THEN user.hashed_password
                         ELSE get_password_hash(CHOOSE v \in data.password : TRUE),
     role_id |-> Pick(data.role_id, user.role_id),
     is_active |-> Pick(data.is_active, user.is_active)]

\* users.username is String(50); UserResponse.username has max_length 50,
\* UserUpdate.username max_length 100.
USERNAME_COLUMN_LENGTH == 50
USERNAME_MAX_LENGTH == 50

\* strict: the store refuses a value longer than its column (the flush
\* raises DataError); otherwise the store keeps the value and the response
\* model refuses it after the flush (ValidationError).
\* UserService.update_user up to the write: the error of the lookup or of
\* the pre-check, if any.
update_user_refused(db, user_id, data) ==
    LET found == get_by_id(db, user_id) IN
    IF found = {}
    THEN {HTTPException(404, "User not found")}
    ELSE LET user == CHOOSE u \in found : TRUE IN
         IF data.email # {} /\ data.email # {user.email}
            /\ \E e \in data.email : email_exists(db, e)
         THEN {HTTPException(400, "Email already registered")}
         ELSE IF data.username # {} /\ data.username # {user.username}
                 /\ \E n \in data.username : username_exists(db, n)
         THEN {HTTPException(400, "Username already taken")}
         ELSE {}

\* UserRepository.update (setattr, flush) and the response built from the
\* row.  user is the row as the session loaded it; db holds it.
update(db, user, data, strict) ==
    LET updated == setattr(user, data)
        flushed == (db \ {user}) \cup {updated}
    IN IF constraint_violation(db, updated)
       THEN Out(IntegrityError, db)
       ELSE IF strict /\ Len(updated.username) > USERNAME_COLUMN_LENGTH
       THEN Out(DataError, db)
       ELSE IF Len(updated.username) > USERNAME_MAX_LENGTH
       THEN Out(ValidationError, flushed)
       ELSE Out(Ok(200, {UserResponse(updated)}), flushed)

update_user(db, user_id, data, strict) ==
    LET refused == update_user_refused(db, user_id, data) IN
    IF refused # {}
    THEN Out(CHOOSE e \in refused : TRUE, db)
    ELSE update(db, CHOOSE u \in get_by_id(db, user_id) : TRUE, data, strict)

delete_user(db, user_id) ==
    LET found == get_by_id(db, user_id) IN
    IF found = {}
    THEN Out(HTTPException(404, "User not found"), db)
    ELSE Out(Ok(204, {}), db \ found)

(***************************************************************************)
(* UserController.update_user: the ownership test reads                    *)
(* current_user.is_superuser, an attribute the User model does not have,   *)
(* whenever user_id differs from the caller's id.  (The controller module  *)
(* also imports get_current_superuser, which dependencies.py does not      *)
(* define; the model takes the import to resolve, the name being used only *)
(* in parameter defaults the routes never evaluate.)                       *)
(***************************************************************************)
controller_update_user(db, user_id, data, current_user, strict) ==
    IF user_id # current_user.id
    THEN Out(AttributeError, db)
    ELSE update_user(db, user_id, data, strict)

\* A get_db that commits on both paths.
get_db_commits_always(db, out) == out.db

(***************************************************************************)
(* get_db: commit when the handler returns, roll back when it raises.      *)
(***************************************************************************)
get_db(db, out) == IF out.resp.raised THEN db ELSE out.db

(***************************************************************************)
(* State.  users: the committed users table.  nextId: the autoincrement    *)
(* counter.  now: the server clock.  held: the tokens the client kept from *)
(* a token response.  last: the request in hand and its response; the      *)
(* client sends one request at a time and takes the response (Receive)     *)
(* before it sends the next.  sess: the request-scoped sessions of the     *)
(* write requests that run concurrently (used by SpecRace only).           *)
(***************************************************************************)
Sessions == {1, 2}

\* A session: pc is where its handler stands (idle, checked: past the
\* pre-check, done: answered); seen is the row the handler loaded; passed is
\* whether the pre-check passed; resp is the response, once there is one.
Session(pc, op, id, data, seen, passed, resp) ==
    [pc |-> pc, op |-> op, id |-> id, data |-> data, seen |-> seen,
     passed |-> passed, resp |-> resp]

Free == Session("idle", "none", 0, Unset, {}, FALSE, {})

Request(op, email, password, tok, id, data) ==
    [op |-> op, email |-> email, password |-> password, tok |-> tok, id |-> id,
     data |-> data]

Exchange(req, resp) ==
    [op |-> req.op, email |-> req.email, password |-> req.password,
     tok |-> req.tok, id |-> req.id, data |-> req.data,
     raised |-> resp.raised, status |-> resp.status, detail |-> resp.detail,
     error |-> resp.error, logged |-> resp.logged,
     access |-> resp.access, refresh |-> resp.refresh,
     token_type |-> resp.token_type, body |-> resp.body]

Idle == Exchange(Request("none", "", "", {}, 0, Unset), Ok(200, {}))

Init ==
    /\ users = {}
    /\ nextId = 1
    /\ now = 0
    /\ ticks = 0
    /\ held = {}
    /\ last = Idle
    /\ sess = [s \in Sessions |-> Free]
    /\ stale = [used |-> {}, older |-> {}, again |-> {}, events |-> 0]

(***************************************************************************)
(* What a client can present as a token: a token it kept, a token whose    *)
(* signature does not verify, or a signed token that carries no user_id.   *)
(* A request without an Authorization header is answered by HTTPBearer     *)
(* before any code of the application runs, and is not modelled.           *)
(***************************************************************************)
Forged(time) ==
    [sig |-> FALSE, type |-> "access", user_id |-> 1, username |-> "alice",
     exp |-> time + RefreshTTL]

Anonymous(type, time) ==
    [sig |-> TRUE, type |-> type, user_id |-> 0, username |-> "",
     exp |-> time + RefreshTTL]

Presentable ==
    held \cup {Forged(now), Anonymous("access", now), Anonymous("refresh", now)}

TargetIds == 1 .. MaxUsers

(***************************************************************************)
(* The client takes the response, and keeps the token pair of a token      *)
(* response or not.                                                        *)
(***************************************************************************)
Receive(keep) ==
    /\ last.op # "none"
    /\ held' = IF keep /\ last.access # {} THEN last.access \cup last.refresh ELSE held
    /\ last' = Idle
    /\ UNCHANGED <<stale, sess, users, nextId, now, ticks>>

(***************************************************************************)
(* POST /users                                                             *)
(***************************************************************************)
CreateUser(email, username, password, role_id) ==
    /\ last.op = "none"
    /\ nextId <= MaxUsers
    /\ LET out == create_user(users, nextId, email, username, password, role_id)
           data == [Unset EXCEPT !.username = {username}, !.role_id = {role_id}]
       IN /\ users' = get_db(users, out)
          /\ nextId' = IF out.resp.raised THEN nextId ELSE nextId + 1
          /\ last' = Exchange(Request("create", email, password, {}, 0, data), out.resp)
    /\ UNCHANGED <<stale, sess, now, ticks, held>>

(***************************************************************************)
(* POST /auth/login, POST /auth/refresh                                    *)
(***************************************************************************)
\* A login that locks the account (is_active cleared) when the password of a
\* known email does not verify.
Login_locks_account(email, password) ==
    /\ last.op = "none"
    /\ last' = Exchange(Request("login", email, password, {}, 0, Unset),
                        login(users, now, email, password))
    /\ users' = {IF u.email = email /\ ~verify_password(password, u.hashed_password)
                 THEN [u EXCEPT !.is_active = FALSE] ELSE u : u \in users}
    /\ UNCHANGED <<stale, sess, nextId, now, ticks, held>>

Login(email, password) ==
    /\ last.op = "none"
    /\ last' = Exchange(Request("login", email, password, {}, 0, Unset),
                        login(users, now, email, password))
    /\ UNCHANGED <<stale, sess, users, nextId, now, ticks, held>>

Refresh(t) ==
    /\ last.op = "none"
    /\ last' = Exchange(Request("refresh", "", "", {t}, 0, Unset),
                        refresh_token(users, now, t))
    /\ UNCHANGED <<stale, sess, users, nextId, now, ticks, held>>

(***************************************************************************)
(* GET /users/me, GET /users/{id}, GET /users                              *)
(***************************************************************************)
GetMe(t) ==
    /\ last.op = "none"
    /\ LET g == get_current_active_user(users, now, t) IN
       last' = Exchange(Request("me", "", "", {t}, 0, Unset),
                        IF g.error # {} THEN CHOOSE e \in g.error : TRUE
                        ELSE Ok(200, {UserResponse(u) : u \in g.user}))
    /\ UNCHANGED <<stale, sess, users, nextId, now, ticks, held>>

GetUser(t, id) ==
    /\ last.op = "none"
    /\ LET g == get_current_active_user(users, now, t) IN
       last' = Exchange(Request("get", "", "", {t}, id, Unset),
                        IF g.error # {} THEN CHOOSE e \in g.error : TRUE
                        ELSE get_user_by_id(users, id))
    /\ UNCHANGED <<stale, sess, users, nextId, now, ticks, held>>

Min(a, b) == IF a < b THEN a ELSE b
Max(a, b) == IF a < b THEN b ELSE a

\* SELECT ... OFFSET skip LIMIT limit has no ORDER BY: any rows of the right count.
get_all(db, skip, limit) ==
    {rows \in SUBSET db :
        Cardinality(rows) = Min(limit, Max(Cardinality(db) - skip, 0))}

GetAllUsers(t, skip, limit) ==
    /\ last.op = "none"
    /\ LET g == get_current_admin(users, now, t) IN
       \E rows \in IF g.error # {} THEN {{}} ELSE get_all(users, skip, limit) :
          last' = Exchange(Request("list", "", "", {t}, 0, Unset),
                           IF g.error # {} THEN CHOOSE e \in g.error : TRUE
                           ELSE Ok(200, {UserResponse(u) : u \in rows}))
    /\ UNCHANGED <<stale, sess, users, nextId, now, ticks, held>>

(***************************************************************************)
(* PATCH /users/{id}, DELETE /users/{id}                                   *)
(***************************************************************************)
\* A username of 51 characters: within UserUpdate's limit of 100, beyond the
\* column's and UserResponse's 50.
LongUsername == "abcdefghijabcdefghijabcdefghijabcdefghijabcdefghijk"

\* Whether the store enforces the column length shows only when the value
\* is longer than the column.
StoreModes(data) == IF data.username = {LongUsername} THEN BOOLEAN ELSE {TRUE}

UpdateUser(t, id, data) ==
    /\ last.op = "none"
    /\ \E strict \in StoreModes(data) :
          LET g == get_current_active_user(users, now, t)
              out == IF g.error # {} THEN Out(CHOOSE e \in g.error : TRUE, users)
                     ELSE controller_update_user(users, id, data,
                                                 CHOOSE u \in g.user : TRUE, strict)
          IN /\ users' = get_db(users, out)
             /\ last' = Exchange(Request("update", "", "", {t}, id, data), out.resp)
    /\ UNCHANGED <<stale, sess, nextId, now, ticks, held>>

DeleteUser(t, id) ==
    /\ last.op = "none"
    /\ LET g == get_current_admin(users, now, t)
           out == IF g.error # {} THEN Out(CHOOSE e \in g.error : TRUE, users)
                  ELSE delete_user(users, id)
       IN /\ users' = get_db(users, out)
          /\ last' = Exchange(Request("delete", "", "", {t}, id, Unset), out.resp)
    /\ UNCHANGED <<stale, sess, nextId, now, ticks, held>>

(***************************************************************************)
(* Inputs of the requests.                                                 *)
(***************************************************************************)
CreateRoleIds == RoleIds \cup {3}

\* A PATCH body sets at most one field.
UpdatePayloads ==
    {Unset}
    \cup {[Unset EXCEPT !.email = {e}] : e \in Emails}
    \cup {[Unset EXCEPT !.username = {n}] : n \in Usernames \cup {LongUsername}}
    \cup {[Unset EXCEPT !.password = {p}] : p \in Passwords}
    \cup {[Unset EXCEPT !.role_id = {r}] : r \in CreateRoleIds}
    \cup {[Unset EXCEPT !.is_active = {b}] : b \in BOOLEAN}

\* The body of a request the guard rejects is never read.
PayloadsRead(t) ==
    IF get_current_active_user(users, now, t).error # {} THEN {Unset} ELSE UpdatePayloads

DefaultLimit == 100
Pages == {<<0, DefaultLimit>>, <<1, 1>>}

Next ==
    \/ \E keep \in BOOLEAN : Receive(keep)
    \/ \E e \in Emails, n \in Usernames, p \in Passwords, r \in CreateRoleIds :
          CreateUser(e, n, p, r)
    \/ \E e \in Emails, p \in Passwords : Login(e, p)
    \/ \E t \in Presentable : Refresh(t)
    \/ \E t \in Presentable : GetMe(t)
    \/ \E t \in Presentable, id \in TargetIds : GetUser(t, id)
    \/ \E t \in Presentable, page \in Pages : GetAllUsers(t, page[1], page[2])
    \/ \E t \in Presentable, id \in TargetIds :
          \E data \in PayloadsRead(t) : UpdateUser(t, id, data)
    \/ \E t \in Presentable, id \in TargetIds : DeleteUser(t, id)

Spec == Init /\ [][Next]_vars

(***************************************************************************)
(* The same server with the clock running: time passes between requests,   *)
(* by a minute, by just under the access lifetime or by just under the     *)
(* refresh lifetime.  The requests are registration (with one password and *)
(* the default role), login, refresh, GET /users/me and a PATCH that       *)
(* renames a user.                                                         *)
(***************************************************************************)
DefaultRoleId == 1

Renames == {Unset} \cup {[Unset EXCEPT !.username = {n}] : n \in Usernames}

TickSteps == {1, AccessTTL - 1, RefreshTTL - 1}

Tick(d) ==
    /\ last.op = "none"
    /\ ticks < MaxTicks
    /\ now' = now + d
    /\ ticks' = ticks + 1
    /\ UNCHANGED <<stale, sess, users, nextId, held, last>>

NextClock ==
    \/ \E d \in TickSteps : Tick(d)
    \/ \E keep \in BOOLEAN : Receive(keep)
    \/ \E e \in Emails, n \in Usernames : CreateUser(e, n, "pw1", DefaultRoleId)
    \/ \E e \in Emails, p \in Passwords : Login(e, p)
    \/ \E t \in Presentable : Refresh(t)
    \/ \E t \in Presentable : GetMe(t)
    \/ \E t \in Presentable, id \in TargetIds :
          \E data \in PayloadsRead(t) \cap Renames : UpdateUser(t, id, data)

SpecClock == Init /\ [][NextClock]_vars

(***************************************************************************)
(* The same server with write requests in flight together.  Each request   *)
(* runs in its own session (get_db): the handler awaits between its        *)
(* pre-check and its write, so another request can check or write in       *)
(* between.  The pre-check reads the committed table.  The write (flush)   *)
(* and the commit that follows it are one step: from its first write a     *)
(* transaction holds the rows and index entries it wrote, a conflicting    *)
(* writer waits for its commit, and nothing in the handler fails between   *)
(* the flush and the commit.  The requests are registration (one password, *)
(* the default role), PATCH of an email or a username, and login.          *)
(***************************************************************************)
RacePayloads == Renames \cup {[Unset EXCEPT !.email = {e}] : e \in Emails}

InFlight == {s \in Sessions : sess[s].op = "create" /\ sess[s].pc = "checked"}

Quiet == \A s \in Sessions : sess[s].pc = "idle"

\* POST /users up to the await of UserRepository.create.
BeginCreate(s, email, username) ==
    /\ last.op = "none"
    /\ sess[s].pc = "idle"
    /\ nextId + Cardinality(InFlight) <= MaxUsers
    /\ LET refused == create_user_refused(users, email, username)
           data == [Unset EXCEPT !.email = {email}, !.username = {username}]
       IN sess' = [sess EXCEPT ![s] =
                      IF refused # {}
                      THEN Session("done", "create", 0, data, {}, FALSE, refused)
                      ELSE Session("checked", "create", 0, data, {}, TRUE, {})]
    /\ UNCHANGED <<stale, users, nextId, now, ticks, held, last>>

\* POST /users from UserRepository.create to the commit or rollback of get_db.
WriteCreate(s) ==
    /\ sess[s].pc = "checked"
    /\ sess[s].op = "create"
    /\ LET data == sess[s].data
           user == NewUser(nextId, CHOOSE e \in data.email : TRUE,
                           CHOOSE n \in data.username : TRUE, "pw1", DefaultRoleId)
           out == create(users, user)
       IN /\ users' = get_db(users, out)
          /\ nextId' = IF out.resp.raised THEN nextId ELSE nextId + 1
          /\ sess' = [sess EXCEPT ![s] =
                         Session("done", "create", 0, data, {}, TRUE, {out.resp})]
    /\ UNCHANGED <<stale, now, ticks, held, last>>

\* PATCH /users/{id} up to the await of UserRepository.update: the guard, the
\* ownership test, the lookup and the pre-check.
BeginUpdate(s, t, id, data) ==
    /\ last.op = "none"
    /\ sess[s].pc = "idle"
    /\ LET g == get_current_active_user(users, now, t)
           refused == IF g.error # {} THEN g.error
                      ELSE IF id # (CHOOSE u \in g.user : TRUE).id THEN {AttributeError}
                      ELSE update_user_refused(users, id, data)
       IN sess' = [sess EXCEPT ![s] =
                      IF refused # {}
                      THEN Session("done", "update", id, data, {}, FALSE, refused)
                      ELSE Session("checked", "update", id, data,
                                   get_by_id(users, id), TRUE, {})]
    /\ UNCHANGED <<stale, users, nextId, now, ticks, held, last>>

\* The attributes setattr changed on the loaded row: the UPDATE sets these
\* columns, and only these, on the stored row.
changed(seen, data) ==
    [data EXCEPT !.email = data.email \ {seen.email},
                 !.username = data.username \ {seen.username}]

\* PATCH /users/{id} from UserRepository.update to the commit or rollback of
\* get_db.  The response is built from the session's own row.
WriteUpdate(s) ==
    /\ sess[s].pc = "checked"
    /\ sess[s].op = "update"
    /\ get_by_id(users, sess[s].id) # {}
    /\ LET seen == CHOOSE u \in sess[s].seen : TRUE
           stored == CHOOSE u \in get_by_id(users, sess[s].id) : TRUE
           out == update(users, stored, changed(seen, sess[s].data), TRUE)
           resp == IF out.resp.raised THEN out.resp
                   ELSE Ok(200, {UserResponse(setattr(seen, sess[s].data))})
       IN /\ users' = get_db(users, out)
          /\ sess' = [sess EXCEPT ![s] =
                         Session("done", "update", sess[s].id, sess[s].data,
                                 sess[s].seen, TRUE, {resp})]
    /\ UNCHANGED <<stale, nextId, now, ticks, held, last>>

\* The client takes the response of a session.
Done(s) ==
    /\ sess[s].pc = "done"
    /\ sess' = [sess EXCEPT ![s] = Free]
    /\ UNCHANGED <<stale, users, nextId, now, ticks, held, last>>

NextRace ==
    \/ \E s \in Sessions, e \in Emails, n \in Usernames : BeginCreate(s, e, n)
    \/ \E s \in Sessions : WriteCreate(s)
    \/ \E s \in Sessions, t \in Presentable, id \in TargetIds :
          \E data \in PayloadsRead(t) \cap RacePayloads : BeginUpdate(s, t, id, data)
    \/ \E s \in Sessions : WriteUpdate(s)
    \/ \E s \in Sessions : Done(s)
    \/ Quiet /\ \E e \in Emails : Login(e, "pw1")
    \/ \E keep \in BOOLEAN : Receive(keep)

SpecRace == Init /\ [][NextRace]_vars

(***************************************************************************)
(* The server with the clock running and a record, stale, of the tokens    *)
(* that a server with revocation state would have withdrawn: used is the   *)
(* refresh tokens presented in a successful refresh, older is the tokens   *)
(* the client held for a user when a refresh succeeded for that user or    *)
(* when that user's password was changed, again is the tokens of used that *)
(* a later refresh accepted once more.  The code keeps no such record      *)
(* (AuthService and dependencies.py read the token and the users table     *)
(* only), so stale is never read by a handler.  The record takes the first *)
(* MaxRecorded such events.  The client presents the tokens it holds and   *)
(* the recorded ones.  The requests are registration (one password, the    *)
(* default role), login, refresh, GET /users/me and a PATCH of the id the  *)
(* token names that sets a password or deactivates.                        *)
(***************************************************************************)
MaxRecorded == 1

Recorded(used, older) ==
    IF stale.events < MaxRecorded
    THEN [used |-> stale.used \cup used, older |-> stale.older \cup older,
          again |-> stale.again \cup (used \cap stale.used),
          events |-> stale.events + 1]
    ELSE [stale EXCEPT !.again = @ \cup (used \cap stale.used)]

TrackedPayloads ==
    {Unset, [Unset EXCEPT !.password = {"pw2"}], [Unset EXCEPT !.is_active = {FALSE}]}

\* The accounts registered, and the time that passes between requests: just
\* under the access lifetime.
Accounts == {<<"a@x.com", "alice">>, <<"b@x.com", "bob">>}

TrackedTicks == {AccessTTL - 1}

Known == held \cup stale.used \cup stale.older

IssuedTo(id) == {h \in held : h.user_id = id}

\* A refresh that accepts a refresh token once only.
RefreshTracked_single_use(t) ==
    /\ last.op = "none"
    /\ LET resp == IF t \in stale.used THEN HTTPException(401, "Invalid refresh token")
                   ELSE refresh_token(users, now, t)
       IN /\ last' = Exchange(Request("refresh", "", "", {t}, 0, Unset), resp)
          /\ stale' = IF resp.status = 200
                      THEN Recorded({t}, IssuedTo(t.user_id))
                      ELSE stale
    /\ UNCHANGED <<sess, users, nextId, now, ticks, held>>

\* POST /auth/refresh
RefreshTracked(t) ==
    /\ last.op = "none"
    /\ LET resp == refresh_token(users, now, t)
       IN /\ last' = Exchange(Request("refresh", "", "", {t}, 0, Unset), resp)
          /\ stale' = IF resp.status = 200
                      THEN Recorded({t}, IssuedTo(t.user_id))
                      ELSE stale
    /\ UNCHANGED <<sess, users, nextId, now, ticks, held>>

\* PATCH /users/{id}
UpdateUserTracked(t, id, data) ==
    /\ last.op = "none"
    /\ \E strict \in StoreModes(data) :
          LET g == get_current_active_user(users, now, t)
              out == IF g.error # {} THEN Out(CHOOSE e \in g.error : TRUE, users)
                     ELSE controller_update_user(users, id, data,
                                                 CHOOSE u \in g.user : TRUE, strict)
          IN /\ users' = get_db(users, out)
             /\ last' = Exchange(Request("update", "", "", {t}, id, data), out.resp)
             /\ stale' = IF ~out.resp.raised /\ data.password # {}
                         THEN Recorded({}, IssuedTo(id))
                         ELSE stale
    /\ UNCHANGED <<sess, nextId, now, ticks, held>>

NextTracked ==
    \/ \E d \in TrackedTicks : Tick(d)
    \/ \E keep \in BOOLEAN : Receive(keep)
    \/ \E a \in Accounts : CreateUser(a[1], a[2], "pw1", DefaultRoleId)
    \/ \E e \in Emails, p \in Passwords : Login(e, p)
    \/ \E t \in Known : RefreshTracked(t)
    \/ \E t \in Known : GetMe(t)
    \/ \E t \in Known :
          \E data \in PayloadsRead(t) \cap TrackedPayloads :
             UpdateUserTracked(t, t.user_id, data)

SpecTracked == Init /\ [][NextTracked]_vars

(***************************************************************************)
(* Login (AuthService.login).  A login leaves the table as it found it, so *)
(* in a state whose last request is a login, users is the table the login  *)
(* read and now is the instant the tokens were issued.                     *)
(***************************************************************************)
Matches(u, email, password) ==
    u.email = email /\ verify_password(password, u.hashed_password)

\* C1: a login with the email and a verifying password of an active user
\* succeeds with exactly one access and one refresh token, both unexpired
\* when issued, both carrying that user's id, and token_type "bearer".
C1_LoginIssuesTokenPair ==
    last.op = "login" =>
        \A u \in users :
            (u.is_active /\ Matches(u, last.email, last.password)) =>
                /\ last.status = 200
                /\ last.token_type = "bearer"
                /\ Cardinality(last.access) = 1
                /\ Cardinality(last.refresh) = 1
                /\ \A a \in last.access :
                      a.type = "access" /\ a.user_id = u.id /\ decode_token(a, now) = {a}
                /\ \A r \in last.refresh :
                      r.type = "refresh" /\ r.user_id = u.id /\ decode_token(r, now) = {r}

C1_Witness ==
    /\ last.op = "login"
    /\ last.status = 200
    /\ \E u \in users : u.is_active /\ Matches(u, last.email, last.password)
    /\ \E u \in users : ~u.is_active

\* C2: a login with an unknown email and a login with a known email and a
\* password that does not verify end alike: 401 "Incorrect email or
\* password", and no token.
C2_BadCredentialsAlike ==
    (/\ last.op = "login"
     /\ \/ ~email_exists(users, last.email)
        \/ \E u \in users :
              u.email = last.email /\ ~verify_password(last.password, u.hashed_password))
    => /\ last.status = 401
       /\ last.detail = "Incorrect email or password"
       /\ last.access = {}
       /\ last.refresh = {}

C2_Witness ==
    /\ last.op = "login"
    /\ last.status = 401
    /\ \E u \in users :
          /\ u.email = last.email
          /\ u.is_active
          /\ ~verify_password(last.password, u.hashed_password)
    /\ \E e \in Emails : ~email_exists(users, e)

\* C3: a login with the verifying password of an inactive user fails with
\* 400 "Inactive user" and issues no token.
C3_InactiveLogin400 ==
    (/\ last.op = "login"
     /\ \E u \in users : ~u.is_active /\ Matches(u, last.email, last.password))
    => /\ last.status = 400
       /\ last.detail = "Inactive user"
       /\ last.access = {}
       /\ last.refresh = {}

C3_Witness ==
    /\ last.op = "login"
    /\ last.status = 400
    /\ \E u \in users : ~u.is_active /\ Matches(u, last.email, last.password)

\* C4 as claimed: a login for a user that is found but inactive fails with 401.
C4_InactiveLogin401 ==
    (/\ last.op = "login"
     /\ \E u \in users : ~u.is_active /\ Matches(u, last.email, last.password))
    => last.status = 401

\* C4 as amended: an inactive account is 400 (not 401) at login and 401 at
\* refresh: a login that finds the user inactive, the password verifying,
\* answers 400; a refresh with a verifying, unexpired refresh token of an
\* inactive user answers 401.
C4_InactiveLogin400Refresh401 ==
    /\ (/\ last.op = "login"
        /\ \E u \in users : ~u.is_active /\ Matches(u, last.email, last.password))
       => (last.status = 400 /\ last.status # 401)
    /\ (/\ last.op = "refresh"
        /\ \E t \in last.tok :
              /\ decode_token(t, now) # {}
              /\ t.type = "refresh"
              /\ \E u \in users : u.id = t.user_id /\ ~u.is_active)
       => last.status = 401

C4_Witness ==
    /\ last.op = "login"
    /\ last.detail = "Inactive user"
    /\ last.status # 401
    /\ \E t \in held :
          t.type = "refresh" /\ \E u \in users : u.id = t.user_id /\ ~u.is_active

(***************************************************************************)
(* Token types, refresh and the guard.                                     *)
(***************************************************************************)
Protected == {"me", "get", "list", "update", "delete"}

\* The tokens in play: kept by the client, issued in the response in hand,
\* or presented with the request in hand.
InPlay == Presentable \cup last.access \cup last.refresh \cup last.tok

\* C5: token types are kept apart in both directions: an access token
\* presented to refresh is answered 401 even when it is signed and unexpired,
\* a refresh token presented as the bearer token of a protected route is
\* answered 401, and no token is accepted by both refresh and the guard.
C5_TokenTypesApart ==
    /\ (last.op = "refresh" /\ \E t \in last.tok : t.type = "access")
          => (last.status = 401 /\ last.access = {} /\ last.refresh = {})
    /\ (last.op \in Protected /\ \E t \in last.tok : t.type = "refresh")
          => (last.status = 401 /\ last.body = {})
    /\ \A t \in InPlay :
          ~(/\ ~refresh_token(users, now, t).raised
            /\ get_current_user(users, now, t).error = {})

C5_Witness ==
    /\ last.op = "refresh"
    /\ last.status = 401
    /\ \E t \in last.tok :
          /\ t.type = "access"
          /\ decode_token(t, now) # {}
          /\ \E u \in users : u.id = t.user_id /\ u.is_active
          /\ get_current_user(users, now, t).error = {}

\* C7: a refresh with a signed, unexpired refresh token is answered 401, with
\* no token, when the token carries no user_id, when no user has its user_id,
\* or when that user is inactive.
C7_RefreshNeedsActiveUser ==
    (/\ last.op = "refresh"
     /\ \E t \in last.tok :
           /\ decode_token(t, now) # {}
           /\ t.type = "refresh"
           /\ \/ t.user_id = 0
              \/ get_by_id(users, t.user_id) = {}
              \/ \E u \in users : u.id = t.user_id /\ ~u.is_active)
    => /\ last.status = 401
       /\ last.access = {}
       /\ last.refresh = {}

C7_Witness ==
    /\ last.op = "refresh"
    /\ last.status = 401
    /\ \E t \in last.tok :
          /\ decode_token(t, now) # {}
          /\ t.type = "refresh"
          /\ t.user_id # 0
          /\ get_by_id(users, t.user_id) = {}

\* C6: a token is accepted only within its lifetime.  A token response sets
\* the access expiry 30 minutes and the refresh expiry 7 days after the
\* instant of issue; a refresh token of an active user presented before its
\* expiry yields tokens with its user_id, an access token of an active user
\* presented before its expiry yields that user's record; from the expiry on
\* a refresh is answered 401 and a protected request is answered 401.
C6_TokenLifetime ==
    /\ (last.op \in {"login", "refresh"} /\ ~last.raised)
          => /\ \A a \in last.access : a.exp = now + 30
             /\ \A r \in last.refresh : r.exp = now + 7 * 24 * 60
    /\ \A t \in last.tok :
          (last.op = "refresh" /\ t.sig /\ t.type = "refresh" /\ t.user_id # 0)
          => /\ now >= t.exp
                   => (last.status = 401 /\ last.access = {} /\ last.refresh = {})
             /\ (now < t.exp /\ \E u \in users : u.id = t.user_id /\ u.is_active)
                   => /\ last.status = 200
                      /\ \A n \in last.access \cup last.refresh : n.user_id = t.user_id
    /\ \A t \in last.tok :
          (last.op \in Protected /\ t.sig /\ t.type = "access" /\ t.user_id # 0)
          => /\ now >= t.exp => (last.status = 401 /\ last.body = {})
             /\ (last.op = "me" /\ now < t.exp
                 /\ \E u \in users : u.id = t.user_id /\ u.is_active)
                   => /\ last.status = 200
                      /\ \A b \in last.body : b.id = t.user_id
                      /\ last.body # {}

C6_Witness ==
    /\ last.op = "refresh"
    /\ last.status = 401
    /\ \E t \in last.tok :
          /\ t.sig /\ t.type = "refresh" /\ t.user_id # 0
          /\ now >= t.exp
          /\ \E u \in users : u.id = t.user_id /\ u.is_active

\* C8: a successful refresh answers with a newly created access token and a
\* newly created refresh token: each expires its full lifetime after the
\* instant of the refresh (so the refresh token is not the presented one
\* handed back), both carry the user_id of the presented token, and the
\* access token carries the username stored for that user at the refresh.
C8_RefreshIssuesNewPair ==
    (last.op = "refresh" /\ ~last.raised)
    => \A t \in last.tok :
          /\ Cardinality(last.access) = 1
          /\ Cardinality(last.refresh) = 1
          /\ \A r \in last.refresh :
                /\ r.type = "refresh"
                /\ r.user_id = t.user_id
                /\ r.exp = now + RefreshTTL
                /\ (t.exp < now + RefreshTTL => r # t)
          /\ \A a \in last.access :
                /\ a.type = "access"
                /\ a.user_id = t.user_id
                /\ a.exp = now + AccessTTL
                /\ \E u \in users : u.id = t.user_id /\ a.username = u.username

C8_Witness ==
    /\ last.op = "refresh"
    /\ last.status = 200
    /\ last.refresh # last.tok
    /\ \E h \in held, a \in last.access :
          h.type = "access" /\ h.user_id = a.user_id /\ h.username # a.username

(***************************************************************************)
(* The guard on the protected routes.  A request is a step from a state    *)
(* with no request in hand: users is the table the request found, users'   *)
(* the table it left.                                                      *)
(***************************************************************************)
Answered(code, msg) == last'.status = code /\ last'.detail = msg

\* C9: on every protected route the handler takes effect (a success response,
\* a changed table) only if the bearer token decoded, had type access,
\* carried a user_id, that user exists and is active; these are tested in
\* this order and the first that fails decides the error.
C9_GuardBeforeEffect ==
    [][(last.op = "none" /\ last'.op \in Protected)
       => \A t \in last'.tok :
             LET decoded == decode_token(t, now) # {}
                 typed == decoded /\ t.type = "access"
                 ident == typed /\ t.user_id # 0
                 exists == ident /\ \E u \in users : u.id = t.user_id
                 active == exists /\ \A u \in users : u.id = t.user_id => u.is_active
             IN /\ ~decoded => Answered(401, "Could not validate credentials")
                /\ (decoded /\ ~typed) => Answered(401, "Could not validate credentials")
                /\ (typed /\ ~ident) => Answered(401, "Could not validate credentials")
                /\ (ident /\ ~exists) => Answered(401, "User not found")
                /\ (exists /\ ~active) => Answered(400, "Inactive user")
                /\ ~active => (users' = users /\ last'.raised /\ last'.body = {})
                /\ (users' # users \/ last'.status \in {200, 204}) => active]_vars

C9_Witness ==
    /\ last.op = "delete"
    /\ last.status = 204
    /\ get_by_id(users, last.id) = {}
    /\ \E t \in last.tok : get_by_id(users, t.user_id) # {}

\* C10: an active user whose role is not admin, with a valid access token, is
\* answered 403 (never 401) on GET /users and on DELETE /users/{id}, no list
\* is returned and no row is deleted; an active admin passes the role test
\* on both routes (the list is returned; the delete answers 204 or 404).
C10_AdminOnly ==
    [][(last.op = "none" /\ last'.op \in {"list", "delete"})
       => \A t \in last'.tok : \A u \in users :
             (decode_token(t, now) # {} /\ t.type = "access"
              /\ u.id = t.user_id /\ u.is_active)
             => IF Role(u.role_id).role_name # "admin"
                THEN /\ Answered(403, "Not enough privileges")
                     /\ last'.body = {}
                     /\ users' = users
                ELSE /\ last'.status \notin {401, 403}
                     /\ last'.op = "list" => last'.status = 200
                     /\ last'.op = "delete" => last'.status \in {204, 404}]_vars

C10_Witness ==
    /\ last.op = "delete"
    /\ last.status = 403
    /\ get_by_id(users, last.id) # {}
    /\ \E t \in last.tok, u \in users :
          u.id = t.user_id /\ u.is_active /\ Role(u.role_id).role_name = "user"

(***************************************************************************)
(* PATCH /users/{id}: ownership.  Caller(t, u): the guard of the route     *)
(* accepts the token t and yields the row u.                               *)
(***************************************************************************)
Caller(t, u) ==
    decode_token(t, now) # {} /\ t.type = "access" /\ u.id = t.user_id /\ u.is_active

\* The payload names no email and no username of another row.
NoConflict(u, data) ==
    \A w \in users \ {u} : data.email # {w.email} /\ data.username # {w.username}

\* The payload names an existing role and a username the column holds.
Storable(data) == data.role_id \subseteq RoleIds /\ data.username # {LongUsername}

\* C11 as claimed: a PATCH by an active user whose role is not admin is
\* answered 403, the table unchanged, when the id is not the caller's own,
\* and 200, the update applied, when it is the caller's own and the payload
\* conflicts with no other row.
C11_OwnProfileOnly ==
    [][(last.op = "none" /\ last'.op = "update")
       => \A t \in last'.tok : \A u \in users :
             (Caller(t, u) /\ Role(u.role_id).role_name # "admin")
             => /\ last'.id # u.id => (last'.status = 403 /\ users' = users)
                /\ (last'.id = u.id /\ NoConflict(u, last'.data) /\ Storable(last'.data))
                      => /\ last'.status = 200
                         /\ users' = (users \ {u}) \cup {setattr(u, last'.data)}]_vars

\* The failing case of C11: the PATCH of another user's id by a user who is
\* not admin has been answered 500.
C11_Witness ==
    /\ last.op = "update"
    /\ last.status = 500
    /\ last.detail = "An unexpected error occurred"
    /\ get_by_id(users, last.id) # {}
    /\ \E t \in last.tok, u \in users :
          Caller(t, u) /\ u.id # last.id /\ Role(u.role_id).role_name # "admin"

\* C12 as claimed: a PATCH by an active admin for an existing user other than
\* the admin passes the ownership check and is answered 200, the update
\* applied.
C12_AdminUpdatesOthers ==
    [][(last.op = "none" /\ last'.op = "update")
       => \A t \in last'.tok : \A u \in users : \A target \in users :
             (/\ Caller(t, u) /\ Role(u.role_id).role_name = "admin"
              /\ target.id = last'.id /\ target.id # u.id
              /\ NoConflict(target, last'.data) /\ Storable(last'.data))
             => /\ last'.status = 200
                /\ users' = (users \ {target}) \cup {setattr(target, last'.data)}]_vars

\* The failing case of C12: the PATCH of another existing user by an admin
\* has been answered 500.
C12_Witness ==
    /\ last.op = "update"
    /\ last.status = 500
    /\ last.error = "'User' object has no attribute 'is_superuser'"
    /\ \E t \in last.tok, u \in users, target \in users :
          /\ Caller(t, u) /\ Role(u.role_id).role_name = "admin"
          /\ target.id = last.id /\ target.id # u.id

(***************************************************************************)
(* POST /users: duplicates.                                                *)
(***************************************************************************)
\* C13: a POST /users whose email is stored is answered 400 "Email already
\* registered", whatever its username (the email is tested first); one whose
\* email is fresh and whose username is stored is answered 400 "Username
\* already taken"; both leave the table as it was.
C13_DuplicateRefused ==
    [][(last.op = "none" /\ last'.op = "create")
       => /\ email_exists(users, last'.email)
                => (Answered(400, "Email already registered") /\ users' = users)
          /\ (/\ ~email_exists(users, last'.email)
              /\ \E n \in last'.data.username : username_exists(users, n))
                => (Answered(400, "Username already taken") /\ users' = users)]_vars

C13_Witness ==
    /\ last.op = "create"
    /\ last.status = 400
    /\ last.detail = "Email already registered"
    /\ \E n \in last.data.username : username_exists(users, n)
    /\ Cardinality(users) = 1

(***************************************************************************)
(* Concurrent writes (SpecRace).                                           *)
(***************************************************************************)
\* C14: in every committed state, whatever the interleaving of the create and
\* update requests in flight, no two stored users share an email, a username
\* or an id.
C14_EmailAndUsernameUnique ==
    \A u \in users : \A w \in users \ {u} :
        u.email # w.email /\ u.username # w.username /\ u.id # w.id

\* A create and an update that both passed their pre-check for the same
\* username; the store refused the later write.
C14_Witness ==
    \E s1 \in Sessions, s2 \in Sessions :
        /\ sess[s1].op = "create" /\ sess[s1].passed /\ sess[s1].pc = "done"
        /\ sess[s2].op = "update" /\ sess[s2].passed /\ sess[s2].pc = "done"
        /\ sess[s1].data.username = sess[s2].data.username
        /\ \E r \in sess[s1].resp \cup sess[s2].resp : r.status = 409
        /\ \E n \in sess[s1].data.username : username_exists(users, n)

\* Two answered create requests for one email that both passed the pre-check.
Raced(s1, s2) ==
    /\ s1 # s2
    /\ sess[s1].op = "create" /\ sess[s1].passed /\ sess[s1].pc = "done"
    /\ sess[s2].op = "create" /\ sess[s2].passed /\ sess[s2].pc = "done"
    /\ sess[s1].data.email = sess[s2].data.email

\* C15: of two create requests for one email that both passed the pre-check,
\* exactly one is answered 201 and the other 409 "Data integrity error"
\* (Conflict), and the table holds one row with that email, the winner's.
C15_RaceLoserConflict ==
    \A s1 \in Sessions, s2 \in Sessions :
        Raced(s1, s2)
        => \E won \in sess[s1].resp \cup sess[s2].resp :
              /\ won.status = 201
              /\ \A r \in (sess[s1].resp \cup sess[s2].resp) \ {won} :
                    r.status = 409 /\ r.detail = "Data integrity error"
              /\ Cardinality(sess[s1].resp \cup sess[s2].resp) = 2
              /\ \A e \in sess[s1].data.email :
                    /\ Cardinality({u \in users : u.email = e}) = 1
                    /\ \A u \in users : u.email = e => UserResponse(u) \in won.body

C15_Witness ==
    \E s1 \in Sessions, s2 \in Sessions :
        /\ Raced(s1, s2)
        /\ sess[s1].data.username # sess[s2].data.username
        /\ \E r \in sess[s1].resp : r.status = 201
        /\ \E r \in sess[s2].resp : r.status = 409
        /\ Cardinality(users) = 1

(***************************************************************************)
(* Frame conditions of the requests (Spec).                                *)
(***************************************************************************)
\* C16: a request that ends in an error (an exception left the handler: 400,
\* 401, 403, 404, 409 or 500, raised before the write, by the flush or after
\* it) leaves the committed table as it was; the table changes only with a
\* success response.
C16_ErrorLeavesTableUnchanged ==
    [][(last.op = "none" /\ last'.op # "none")
       => /\ last'.raised <=> last'.status >= 400
          /\ last'.raised => users' = users
          /\ users' # users => last'.status \in {200, 201, 204}]_vars

\* A PATCH whose flush succeeded and whose response then failed to validate.
C16_Witness ==
    /\ last.op = "update"
    /\ last.status = 500
    /\ last.data.username = {LongUsername}
    /\ last.detail = "An unexpected error occurred"
    /\ \E t \in last.tok, u \in users : Caller(t, u) /\ u.id = last.id

\* C17: a login or a refresh, successful or failed, changes no row and no
\* field of the users table and leaves nothing else on the server: the
\* server's state after the request is its state before it.
C17_AuthWritesNothing ==
    [][(last.op = "none" /\ last'.op \in {"login", "refresh"})
       => /\ users' = users
          /\ nextId' = nextId
          /\ sess' = sess]_vars

C17_Witness ==
    /\ last.op = "login"
    /\ last.status = 401
    /\ \E u \in users : u.email = last.email /\ u.is_active

\* The secrets of the users: the plaintext passwords and their digests.
Secrets == Passwords \cup {get_password_hash(p) : p \in Passwords}

Scalars(b) == {f \in DOMAIN b : f \notin {"id", "role_id", "is_active", "role"}}

\* C18: a success response that carries user records (POST /users, GET
\* /users/me, GET /users/{id}, GET /users, PATCH /users/{id}) has no password
\* field in any record, and no field of a record holds a password or its
\* digest.
C18_NoPasswordInResponses ==
    (last.op \in {"create", "me", "get", "list", "update"} /\ ~last.raised)
    => \A b \in last.body :
          /\ "hashed_password" \notin DOMAIN b
          /\ "password" \notin DOMAIN b
          /\ \A f \in Scalars(b) : b[f] \notin Secrets
          /\ b.role.role_name \notin Secrets

C18_Witness ==
    /\ last.op = "list"
    /\ last.status = 200
    /\ Cardinality(last.body) = 2
    /\ \E u \in users, w \in users : u.hashed_password # w.hashed_password

\* C19 as claimed: a response of status 500 carries no text of the exception
\* (the text is logged, and the body does not repeat it).
C19_NoInternalDetail ==
    last.status = 500 => (last.logged # "" /\ last.error # last.logged)

\* The failing case of C19: a storage error answered 500 with the text of the
\* exception, SQL statement included, in the body.
C19_Witness ==
    /\ last.op = "update"
    /\ last.status = 500
    /\ last.detail = "Database error occurred"
    /\ last.error = last.logged
    /\ last.error # ""

\* C20 as claimed: for a caller the route authorizes, GET, PATCH and DELETE
\* of an id that no stored user has are answered 404 "User not found" and
\* change nothing; a DELETE of a stored id removes that row and no other.
C20_NotFound ==
    [][(last.op = "none" /\ last'.op \in {"get", "update", "delete"})
       => \A t \in last'.tok : \A u \in users :
             (/\ Caller(t, u)
              /\ last'.op \in {"update", "delete"} => Role(u.role_id).role_name = "admin")
             => /\ get_by_id(users, last'.id) = {}
                      => (Answered(404, "User not found") /\ users' = users)
                /\ (last'.op = "delete" /\ get_by_id(users, last'.id) # {})
                      => /\ last'.status = 204
                         /\ users' = users \ get_by_id(users, last'.id)]_vars

\* The failing case of C20: the PATCH of an id that no user has, by an admin,
\* has been answered 500.
C20_Witness ==
    /\ last.op = "update"
    /\ last.status = 500
    /\ get_by_id(users, last.id) = {}
    /\ \E t \in last.tok, u \in users : Caller(t, u) /\ Role(u.role_id).role_name = "admin"

(***************************************************************************)
(* Tokens over the life of the account.                                    *)
(***************************************************************************)
\* C21: a token the server issued stops working once its user is deactivated
\* or deleted: a protected request with that user's unexpired access token is
\* answered 400 "Inactive user" (deactivated) or 401 "User not found"
\* (deleted), a refresh with that user's unexpired refresh token is answered
\* 401 with no token, and neither changes the table.
C21_TokensDieWithAccount ==
    [][(last.op = "none" /\ last'.op \in Protected \cup {"refresh"})
       => \A t \in last'.tok \cap held :
             LET inactive == \E u \in users : u.id = t.user_id /\ ~u.is_active
                 deleted == get_by_id(users, t.user_id) = {}
             IN decode_token(t, now) # {}
                => /\ (last'.op \in Protected /\ t.type = "access" /\ inactive)
                         => (Answered(400, "Inactive user") /\ users' = users)
                   /\ (last'.op \in Protected /\ t.type = "access" /\ deleted)
                         => (Answered(401, "User not found") /\ users' = users)
                   /\ (last'.op = "refresh" /\ t.type = "refresh" /\ (inactive \/ deleted))
                         => /\ last'.status = 401
                            /\ last'.access = {} /\ last'.refresh = {}
                            /\ users' = users]_vars

\* The access token of a user deleted since it was issued has been refused,
\* while another user's row is still stored.
C21_Witness ==
    /\ last.op \in Protected
    /\ last.status = 401
    /\ last.detail = "User not found"
    /\ \E t \in last.tok \cap held : t.type = "access" /\ decode_token(t, now) # {}
    /\ users # {}

C23_NoRevocation ==
    [][(last.op = "none" /\ last'.op \in {"refresh", "me"})
       => \A t \in last'.tok \cap (stale.used \cup stale.older) :
             (/\ decode_token(t, now) # {}
              /\ \E u \in users : u.id = t.user_id /\ u.is_active)
             => /\ (last'.op = "refresh" /\ t.type = "refresh")
                      => /\ last'.status = 200
                         /\ last'.access # {} /\ last'.refresh # {}
                /\ (last'.op = "me" /\ t.type = "access")
                      => /\ last'.status = 200
                         /\ \E r \in last'.body : r.id = t.user_id]_vars

\* A refresh token that had already been presented in a successful refresh
\* has been presented again and answered with a token pair.
C23_Witness ==
    /\ last.op = "refresh"
    /\ last.status = 200
    /\ last.access # {}
    /\ last.tok # {}
    /\ last.tok \subseteq stale.again

(***************************************************************************)
(* C24: at login the password is verified before is_active is read.  A     *)
(* login for an existing inactive user with a password that does not       *)
(* verify is answered 401 "Incorrect email or password", field for field   *)
(* the answer the same request gets from a table without that user; and    *)
(* whenever a login is answered "Inactive user", the password sent         *)
(* verifies against the stored digest of the user with that email.         *)
(***************************************************************************)
C24_PasswordBeforeActive ==
    last.op = "login" =>
        /\ \A u \in users :
              (/\ u.email = last.email
               /\ ~u.is_active
               /\ ~verify_password(last.password, u.hashed_password))
              => /\ last.status = 401
                 /\ last.detail = "Incorrect email or password"
                 /\ last = Exchange(Request("login", last.email, last.password, {}, 0, Unset),
                                    login(users \ {u}, now, last.email, last.password))
        /\ last.detail = "Inactive user"
              => \E u \in users : ~u.is_active /\ Matches(u, last.email, last.password)

\* A login for an inactive user with a password that does not verify has been
\* answered 401.
C24_Witness ==
    /\ last.op = "login"
    /\ last.status = 401
    /\ \E u \in users :
          /\ u.email = last.email
          /\ ~u.is_active
          /\ ~verify_password(last.password, u.hashed_password)

(***************************************************************************)
(* Roles and the requests of callers who are not admins.  A request is an  *)
(* admin's when it carries an access token that get_current_admin accepts. *)
(***************************************************************************)
IsAdmin(u) == Role(u.role_id).role_name = "admin"

ByAdmin(tok) == \E t \in tok : \E u \in users : Caller(t, u) /\ IsAdmin(u)

(***************************************************************************)
(* C25: no request made without a token or with the token of a user who is *)
(* not an admin makes an admin of anyone who was not one, or changes the   *)
(* role_id or is_active of an existing user.                               *)
(***************************************************************************)
C25_NoEscalation ==
    [][(last.op = "none" /\ last'.op # "none" /\ ~ByAdmin(last'.tok))
       => /\ \A w \in users' :
                IsAdmin(w) => \E u \in users : u.id = w.id /\ IsAdmin(u)
          /\ \A u \in users : \A w \in users' :
                w.id = u.id => (w.role_id = u.role_id /\ w.is_active = u.is_active)]_vars

\* A user whose role is not admin has sent PATCH /users/{own id} with
\* is_active false, was answered 200, and is stored inactive.
C25_Witness ==
    /\ last.op = "update"
    /\ last.status = 200
    /\ last.data.is_active = {FALSE}
    /\ \E t \in last.tok : \E u \in users :
          /\ u.id = last.id
          /\ t.user_id = u.id
          /\ t.type = "access"
          /\ decode_token(t, now) # {}
          /\ ~IsAdmin(u)
          /\ ~u.is_active

====
